---- MODULE Spec2Model ----
(***************************************************************************)
(* A model of devito/ir/clusters/algorithms.py: the passes that turn a     *)
(* list of lowered equations into an ordered list of Clusters (direction   *)
(* enforcement, topological reordering, lifting, fusion, guarding) and the *)
(* divide-and-conquer Queue that drives them.                              *)
(*                                                                         *)
(* The collaborators imported by that file (Scope, IterationSpace,         *)
(* Cluster, ClusterGroup, DAG, Dimension) live in other modules of the     *)
(* package; they are modelled from their documented behaviour.             *)
(***************************************************************************)
EXTENDS Integers, Sequences, FiniteSets

VARIABLES
    pc,                \* position of the running routine
    clusters,          \* `clusters` argument of the routine that is running
    prefix,            \* `prefix` argument of the routine that is running
    processed,         \* `processed`: the value built up and returned
    entry,             \* `clusters` as passed to the outermost enforce call
    backlog,           \* enforce: `backlog` (<<>> stands for None)
    known_flow_break,  \* enforce: `known_flow_break` ({} stands for None)
    peels,             \* enforce: number of clusters moved into the backlog
    calls,             \* enforce: number of invocations the call has made
    elements,          \* Queue.process: the `elements` argument
    stack,             \* Queue._process: the frames of the recursion
    cgroups,           \* toposort: the `cgroups` argument
    dag,               \* toposort: the edges of `dag`, as pairs of positions
    in_degree,         \* DAG.topological_sort: `in_degree`
    queue,             \* DAG.topological_sort: `queue`, leftmost first
    scheduled,         \* DAG.topological_sort: `l`, the nodes scheduled so far
    appendleft,        \* DAG.topological_sort: the end at which queue grows
    lifted,            \* lift: the input positions of the clusters in `lifted`
    again,             \* the result of guard applied to its own result
    conquered,         \* Queue: the calls of the callbacks made so far
    stage,             \* clusterize: the stage at work
    equations          \* clusterize: exprs, the equations given

topoVars == <<cgroups, dag, in_degree, queue, scheduled, appendleft>>

passVars == <<lifted, again>>

pipeVars == <<stage, equations>>

vars == <<pc, clusters, prefix, processed, entry, backlog, known_flow_break,
          peels, calls, elements, stack, topoVars, passVars, conquered,
          pipeVars>>

----------------------------------------------------------------------------
(* Bounds of the model *)

\* longest group handed to a direct call of enforce
MaxClusters == 4
\* longest sequence handed to Queue.process
MaxElements == 3
\* longest sequence of groups handed to toposort
MaxGroups == 4

\* longest sibling sequence handed to lift
MaxLift == 3
\* longest sequence handed to fuse
MaxFuse == 4
\* most equations, over all clusters, in a sequence handed to guard
MaxGuardEqs == 4
\* most equations handed to clusterize
MaxExprs == 3

----------------------------------------------------------------------------
(* Generic helpers *)

Last(s) == s[Len(s)]

Front(s) == SubSeq(s, 1, Len(s) - 1)

Range(s) == {s[i] : i \in DOMAIN s}

SeqsUpTo(S, lo, hi) == UNION {[1..k -> S] : k \in lo..hi}

RECURSIVE Flatten(_)
Flatten(ss) == IF ss = <<>> THEN <<>> ELSE Head(ss) \o Flatten(Tail(ss))

\* Python's {**a, **b}
DictMerge(a, b) ==
    [k \in (DOMAIN a) \cup (DOMAIN b) |-> IF k \in DOMAIN b THEN b[k] ELSE a[k]]

----------------------------------------------------------------------------
(* Dimensions, directions, iteration spaces *)

Any == "Any"
Forward == "Forward"
Backward == "Backward"

\* Iteration dimensions: the time loop and the two sub-domains of x
IterDims == {"t", "xl", "xr"}

Parent(d) == IF d \in {"xl", "xr"} THEN "x" ELSE "None"

\* Dimension._defines: the dimension itself plus the siblings sharing its parent
Defines(d) ==
    {d} \cup {e \in IterDims : Parent(e) # "None" /\ Parent(e) = Parent(d)}

Interval(d) == [dim |-> d, stamp |-> 0]

\* IntervalGroup.lift(dims): the intervals over `dims` get a fresh stamp
LiftIntervals(intervals, dims) ==
    [i \in DOMAIN intervals |->
        IF intervals[i].dim \in dims
        THEN [intervals[i] EXCEPT !.stamp = @ + 1]
        ELSE intervals[i]]

\* IterationSpace(intervals, sub_iterators, directions); the sub-iterators are
\* handed on untouched by every routine of the file and are left out
IterationSpace(intervals, directions) ==
    [intervals |-> intervals, directions |-> directions]

DirectionOf(ispace, d) ==
    IF d \in DOMAIN ispace.directions THEN ispace.directions[d] ELSE Any

\* IterationSpace.itintervals: one (dimension, interval, direction) per loop
ItIntervals(ispace) ==
    [i \in DOMAIN ispace.intervals |->
        [dim |-> ispace.intervals[i].dim,
         stamp |-> ispace.intervals[i].stamp,
         dir |-> DirectionOf(ispace, ispace.intervals[i].dim)]]

\* IterationSpace.project(key): keep the dimensions `key` accepts
RECURSIVE SelectSeq2(_, _)
SelectSeq2(s, keep) ==
    IF s = <<>> THEN <<>>
    ELSE IF Head(s).dim \in keep
         THEN <<Head(s)>> \o SelectSeq2(Tail(s), keep)
         ELSE SelectSeq2(Tail(s), keep)

----------------------------------------------------------------------------
(* Equations and the dependence Scope *)

Access(f, idx) == [f |-> f, idx |-> idx]

\* An equation w[widx] = F(reads): `id` is its position in the input list
Eq(id, w, widx, reads, tensor, increment, conditionals) ==
    [id |-> id, w |-> w, widx |-> widx, r |-> reads, tensor |-> tensor,
     increment |-> increment, conditionals |-> conditionals]

\* Dependence.cause: the dimensions whose index differs between the accesses
Cause(widx, ridx) ==
    {d \in (DOMAIN widx) \cap (DOMAIN ridx) : widx[d] # ridx[d]}

OrderedPairs(n) == {p \in (1..n) \X (1..n) : p[1] < p[2]}

\* Scope.d_flow: an earlier equation writes a symbol a later one reads
d_flow(exprs) ==
    UNION {{[src |-> exprs[p[1]].id, snk |-> exprs[p[2]].id, f |-> a.f,
             cause |-> Cause(exprs[p[1]].widx, a.idx)] :
                a \in {b \in exprs[p[2]].r : b.f = exprs[p[1]].w}} :
           p \in OrderedPairs(Len(exprs))}

\* Scope.d_anti: an earlier equation reads a symbol a later one writes
d_anti(exprs) ==
    UNION {{[src |-> exprs[p[1]].id, snk |-> exprs[p[2]].id, f |-> a.f,
             cause |-> Cause(exprs[p[2]].widx, a.idx)] :
                a \in {b \in exprs[p[1]].r : b.f = exprs[p[2]].w}} :
           p \in OrderedPairs(Len(exprs))}

\* DependenceGroup.cause: the union of the causes
Causes(deps) == UNION {d.cause : d \in deps}

----------------------------------------------------------------------------
(* Clusters *)

Cluster(exprs, ispace, dspace, guards) ==
    [exprs |-> exprs, ispace |-> ispace, dspace |-> dspace, guards |-> guards]

NoGuards == <<>>

itintervals(c) == ItIntervals(c.ispace)

\* flatten(c.exprs for c in clusters)
ExprsOf(cs) == Flatten([i \in DOMAIN cs |-> cs[i].exprs])

----------------------------------------------------------------------------
(* enforce(clusters, prefix, backlog=None, known_flow_break=None) *)

\* line 188: prefix[-1].dim._defines
candidates(pfx) == Defines(Last(pfx).dim)

\* line 198
require_flow_break(cs, pfx) ==
    (Causes(d_flow(ExprsOf(cs))) \cap Causes(d_anti(ExprsOf(cs))))
        \cap candidates(pfx)

\* line 206 builds the set {d.Forward for d in ...}: evaluating d.Forward on a
\* Dimension raises AttributeError as soon as the set has one element
FlowUpdateRaises(cs, pfx) ==
    (Causes(d_flow(ExprsOf(cs))) \cap candidates(pfx)) # {}

\* lines 205-206 without the default of line 207
directionsNoDefault(cs, pfx) ==
    [d \in Causes(d_anti(ExprsOf(cs))) \cap candidates(pfx) |-> Backward]

\* lines 205-207, when line 206 has nothing to evaluate
directions(cs, pfx) ==
    LET anti == [d \in Causes(d_anti(ExprsOf(cs))) \cap candidates(pfx)
                    |-> Backward]
        rest == [d \in candidates(pfx) \ DOMAIN anti |-> Forward]
    IN  DictMerge(anti, rest)

\* lines 210-214
Enforced(cs, pfx) ==
    [i \in DOMAIN cs |->
        Cluster(cs[i].exprs,
                IterationSpace(cs[i].ispace.intervals,
                               DictMerge(cs[i].ispace.directions,
                                         directions(cs, pfx))),
                cs[i].dspace, NoGuards)]

\* lines 221-226
Relaxed(bl, kfb) ==
    [i \in DOMAIN bl |->
        Cluster(bl[i].exprs,
                IterationSpace(LiftIntervals(bl[i].ispace.intervals, kfb),
                               DictMerge(bl[i].ispace.directions,
                                         [d \in kfb |-> Any])),
                bl[i].dspace, NoGuards)]

\* lines 183-184
enforce_noprefix ==
    /\ pc = "enforce"
    /\ prefix = <<>>
    /\ processed' = processed \o clusters
    /\ pc' = "returned"
    /\ UNCHANGED <<clusters, prefix, entry, backlog, known_flow_break, peels,
                   elements, stack>>
    /\ calls' = calls + 1
    /\ UNCHANGED <<topoVars, passVars>>
    /\ UNCHANGED conquered
    /\ UNCHANGED pipeVars

\* line 199 without its test of len(clusters)
MustPeelAnyLength(cs, pfx) == require_flow_break(cs, pfx) # {}

\* line 199: the test that peels
MustPeel(cs, pfx) == require_flow_break(cs, pfx) # {} /\ Len(cs) > 1

\* lines 198-202
\* line 200 as it would read with the peeled cluster put behind the backlog
PeeledBehind(cs, bl) == bl \o <<Last(cs)>>

\* line 200: backlog = [clusters[-1]] + (backlog or [])
Peeled(cs, bl) == <<Last(cs)>> \o bl

enforce_peel ==
    /\ pc = "enforce"
    /\ prefix # <<>>
    /\ MustPeel(clusters, prefix)
    /\ backlog' = Peeled(clusters, backlog)
    /\ clusters' = Front(clusters)
    /\ known_flow_break' = require_flow_break(clusters, prefix)
    /\ peels' = peels + 1
    /\ UNCHANGED <<pc, prefix, processed, entry, elements, stack>>
    /\ calls' = calls + 1
    /\ UNCHANGED <<topoVars, passVars>>
    /\ UNCHANGED conquered
    /\ UNCHANGED pipeVars

NoPeel ==
    /\ pc = "enforce"
    /\ prefix # <<>>
    /\ ~MustPeel(clusters, prefix)

\* line 206, AttributeError
enforce_raise ==
    /\ NoPeel
    /\ FlowUpdateRaises(clusters, prefix)
    /\ pc' = "raised"
    /\ UNCHANGED <<clusters, prefix, processed, entry, backlog,
                   known_flow_break, peels, elements, stack>>
    /\ calls' = calls + 1
    /\ UNCHANGED <<topoVars, passVars>>
    /\ UNCHANGED conquered
    /\ UNCHANGED pipeVars

\* lines 204-217
enforce_return ==
    /\ NoPeel
    /\ ~FlowUpdateRaises(clusters, prefix)
    /\ backlog = <<>>
    /\ processed' = processed \o Enforced(clusters, prefix)
    /\ pc' = "returned"
    /\ UNCHANGED <<clusters, prefix, entry, backlog, known_flow_break, peels,
                   elements, stack>>
    /\ calls' = calls + 1
    /\ UNCHANGED <<topoVars, passVars>>
    /\ UNCHANGED conquered
    /\ UNCHANGED pipeVars

\* lines 204-228: the call returns processed + enforce(backlog, prefix)
enforce_backlog ==
    /\ NoPeel
    /\ ~FlowUpdateRaises(clusters, prefix)
    /\ backlog # <<>>
    /\ processed' = processed \o Enforced(clusters, prefix)
    /\ clusters' = Relaxed(backlog, known_flow_break)
    /\ backlog' = <<>>
    /\ known_flow_break' = {}
    /\ UNCHANGED <<pc, prefix, entry, peels, elements, stack>>
    /\ calls' = calls + 1
    /\ UNCHANGED <<topoVars, passVars>>
    /\ UNCHANGED conquered
    /\ UNCHANGED pipeVars

----------------------------------------------------------------------------
(* Queue(enforce): _process(elements, level, prefix) and process(elements) *)

\* line 59: the key of groupby
\* i.itintervals, of a Cluster or of a ClusterGroup
ItIntervalsOf(e) ==
    IF "itintervals" \in DOMAIN e THEN e.itintervals ELSE itintervals(e)

Key(e, level) ==
    SubSeq(ItIntervalsOf(e), 1,
           IF level < Len(ItIntervalsOf(e)) THEN level
           ELSE Len(ItIntervalsOf(e)))

\* groupby as it would be if it never joined two elements
groupbySingly(es, keys) == [i \in DOMAIN es |-> <<es[i]>>]

\* itertools.groupby: the maximal runs of adjacent elements with equal keys,
\* each as the elements of `es` at the positions it spans
RECURSIVE groupby(_, _)
groupby(es, keys) ==
    IF es = <<>> THEN <<>>
    ELSE LET rest == groupby(Tail(es), Tail(keys))
         IN  IF rest # <<>> /\ keys[2] = keys[1]
             THEN <<<<Head(es)>> \o Head(rest)>> \o Tail(rest)
             ELSE <<<<Head(es)>>>> \o rest

Frame(level, pfx, es) ==
    [level |-> level, prefix |-> pfx,
     groups |-> groupby(es, [i \in DOMAIN es |-> Key(es[i], level)]),
     processed |-> <<>>]

Top == stack[Len(stack)]

\* lines 60-62: base case
queue_base ==
    /\ pc = "queue"
    /\ Top.groups # <<>>
    /\ LET g == Head(Top.groups)
       IN  /\ Top.level > Len(Key(g[1], Top.level))
           /\ stack' = [stack EXCEPT ![Len(stack)] =
                          [@ EXCEPT !.groups = Tail(@),
                                    !.processed = @ \o g]]
    /\ UNCHANGED <<pc, clusters, prefix, processed, entry, backlog,
                   known_flow_break, peels, calls, elements>>
    /\ UNCHANGED <<topoVars, passVars>>
    /\ UNCHANGED conquered
    /\ UNCHANGED pipeVars

\* lines 63-65: recursion
queue_recurse ==
    /\ pc = "queue"
    /\ Top.groups # <<>>
    /\ LET g == Head(Top.groups)
       IN  /\ Top.level <= Len(Key(g[1], Top.level))
           /\ stack' = [stack EXCEPT ![Len(stack)] =
                          [@ EXCEPT !.groups = Tail(@)]]
                       \o <<Frame(Top.level + 1, Key(g[1], Top.level), g)>>
    /\ UNCHANGED <<pc, clusters, prefix, processed, entry, backlog,
                   known_flow_break, peels, calls, elements>>
    /\ UNCHANGED <<topoVars, passVars>>
    /\ UNCHANGED conquered
    /\ UNCHANGED pipeVars

\* lines 67-68: the callback is called on what the frame collected
queue_conquer ==
    /\ pc = "queue"
    /\ stage = "enforce"
    /\ Top.groups = <<>>
    /\ clusters' = Top.processed
    /\ entry' = Top.processed
    /\ prefix' = Top.prefix
    /\ processed' = <<>>
    /\ backlog' = <<>>
    /\ known_flow_break' = {}
    /\ peels' = 0
    /\ calls' = 0
    /\ pc' = "enforce"
    /\ conquered' = Append(conquered,
           [prefix |-> Top.prefix,
            ids |-> [k \in DOMAIN Top.processed |-> Top.processed[k].exprs[1].id]])
    /\ UNCHANGED <<elements, stack>>
    /\ UNCHANGED <<topoVars, passVars>>
    /\ UNCHANGED pipeVars

\* lines 67-68 for Queue(toposort, aggregate): toposort is called on what the
\* frame collected
conquer_toposort ==
    /\ pc = "queue"
    /\ stage = "toposort"
    /\ Top.groups = <<>>
    /\ cgroups' = Top.processed
    /\ prefix' = Top.prefix
    /\ dag' = {}
    /\ in_degree' = <<>>
    /\ queue' = <<>>
    /\ scheduled' = <<>>
    /\ processed' = <<>>
    /\ pc' = "toposort"
    /\ UNCHANGED <<clusters, entry, backlog, known_flow_break, peels, calls,
                   elements, stack, appendleft, passVars, conquered, pipeVars>>

\* lines 67-68 for Queue(lift): lift is called on what the frame collected
conquer_lift ==
    /\ pc = "queue"
    /\ stage = "lift"
    /\ Top.groups = <<>>
    /\ clusters' = Top.processed
    /\ prefix' = Top.prefix
    /\ processed' = <<>>
    /\ lifted' = <<>>
    /\ pc' = "lift"
    /\ UNCHANGED <<entry, backlog, known_flow_break, peels, calls, elements,
                   stack, topoVars, again, conquered, pipeVars>>

\* line 69 and line 65: the frame returns and its caller extends `processed`
queue_return ==
    /\ pc = (IF stage = "toposort" THEN "aggregated" ELSE "returned")
    /\ stack # <<>>
    /\ IF Len(stack) = 1
       THEN /\ stack' = <<>>
            /\ pc' = "done"
            /\ UNCHANGED processed
       ELSE /\ stack' = [Front(stack) EXCEPT ![Len(stack) - 1] =
                           [@ EXCEPT !.processed = @ \o processed]]
            /\ pc' = "queue"
            /\ processed' = <<>>
    /\ UNCHANGED <<clusters, prefix, entry, backlog, known_flow_break, peels, calls,
                   elements>>
    /\ UNCHANGED <<topoVars, passVars>>
    /\ UNCHANGED conquered
    /\ UNCHANGED pipeVars

----------------------------------------------------------------------------
(* build_dag(cgroups, prefix) *)

\* ClusterGroup(clusters, itintervals)
ClusterGroup(cs, itv) == [clusters |-> cs, itintervals |-> itv]

\* ClusterGroup.exprs
exprs(cg) == ExprsOf(cg.clusters)

\* line 108
PrefixDims(pfx) == {pfx[k].dim : k \in DOMAIN pfx}

\* lines 113-117: scope.d_anti - local_deps is not empty
AntiBetween(cg0, cg1) ==
    (d_anti(exprs(cg0) \o exprs(cg1))
        \ (d_anti(exprs(cg0)) \cup d_anti(exprs(cg1)))) # {}

\* lines 123-124: any(dep.cause - prefix for dep in scope.d_flow - local_deps)
FlowBetween(cg0, cg1, pfx) ==
    \E dep \in d_flow(exprs(cg0) \o exprs(cg1))
                \ (d_flow(exprs(cg0)) \cup d_flow(exprs(cg1))) :
        dep.cause \ PrefixDims(pfx) # {}

\* lines 117 and 124: one of the two tests that add the edge
AddsEdge(cg0, cg1, pfx) == AntiBetween(cg0, cg1) \/ FlowBetween(cg0, cg1, pfx)

\* lines 110-128: for each cg0 the inner loop stops (break) at the first cg1
\* for which an edge is added
\* build_dag as it would be if it added each edge in both directions
build_dag_symmetric(cgs, pfx) ==
    LET edges == {p \in OrderedPairs(Len(cgs)) :
                     /\ AddsEdge(cgs[p[1]], cgs[p[2]], pfx)
                     /\ \A k \in (p[1] + 1)..(p[2] - 1) :
                            ~AddsEdge(cgs[p[1]], cgs[k], pfx)}
    IN  edges \cup {<<p[2], p[1]>> : p \in edges}

build_dag(cgs, pfx) ==
    {p \in OrderedPairs(Len(cgs)) :
        /\ AddsEdge(cgs[p[1]], cgs[p[2]], pfx)
        /\ \A k \in (p[1] + 1)..(p[2] - 1) : ~AddsEdge(cgs[p[1]], cgs[k], pfx)}

----------------------------------------------------------------------------
(* toposort(cgroups, prefix) and DAG.topological_sort(choose_element) *)

\* Symbols that are temporaries (f.is_Array)
Arrays == {"v"}

\* line 159 as it would read if no symbol were an Array
NoArrayWritten(cg) == FALSE

\* line 159: any(f.is_Array for f in i.scope.writes)
WritesArray(cg) == \E k \in DOMAIN exprs(cg) : exprs(cg)[k].w \in Arrays

\* line 139: Counter(cg.itintervals for cg in cgroups)
counter(cgs) ==
    [itv \in {cgs[k].itintervals : k \in DOMAIN cgs} |->
        Cardinality({k \in DOMAIN cgs : cgs[k].itintervals = itv})]

Min(S) == CHOOSE x \in S : \A y \in S : x <= y

\* deque.remove(x)
Remove(q, x) ==
    IF \E k \in DOMAIN q : q[k] = x
    THEN LET k == Min({j \in DOMAIN q : q[j] = x})
         IN  SubSeq(q, 1, k - 1) \o SubSeq(q, k + 1, Len(q))
    ELSE q

\* The nodes the loop of line 158 would visit if it ran over every node that
\* is not scheduled yet instead of over the queue
ScanUnscheduled(q, sched) ==
    LET left == {k \in DOMAIN cgroups : k \notin Range(sched)}
        RECURSIVE Sorted(_)
        Sorted(S) == IF S = {} THEN <<>>
                     ELSE <<Min(S)>> \o Sorted(S \ {Min(S)})
    IN  Sorted(left)

\* line 158: list(queue)
Scan(q, sched) == q

\* lines 157-163: the first node of the scan that writes no Array and has
\* the itintervals of the last scheduled node (0: there is none)
Preferred(q, sched) ==
    LET scan == Scan(q, sched)
        hits == {k \in DOMAIN scan :
                    /\ ~WritesArray(cgroups[scan[k]])
                    /\ cgroups[scan[k]].itintervals
                         = cgroups[Last(sched)].itintervals}
    IN  IF hits = {} THEN 0 ELSE scan[Min(hits)]

\* lines 150-164: the node choose_element returns
choose_element(q, sched) ==
    IF sched = <<>> THEN Last(q)
    ELSE IF Preferred(q, sched) # 0 THEN Preferred(q, sched)
    ELSE Head(q)

\* lines 150-164: the queue choose_element leaves behind
QueueAfterChoice(q, sched) ==
    IF sched = <<>> THEN Front(q)
    ELSE IF Preferred(q, sched) # 0 THEN Remove(q, Preferred(q, sched))
    ELSE Tail(q)

\* DAG.topological_sort: the queue grows at one end
Enqueue(q, u) == IF appendleft THEN <<u>> \o q ELSE q \o <<u>>

RECURSIVE EnqueueAll(_, _)
EnqueueAll(q, us) ==
    IF us = <<>> THEN q ELSE EnqueueAll(Enqueue(q, Head(us)), Tail(us))

RECURSIVE Ascending(_)
Ascending(S) ==
    IF S = {} THEN <<>> ELSE <<Min(S)>> \o Ascending(S \ {Min(S)})

InDegree(edges, n) ==
    [v \in 1..n |-> Cardinality({e \in edges : e[2] = v})]

Groups(cgs, order) == [k \in DOMAIN order |-> cgs[order[k]]]

\* lines 139-141
toposort_nofusion ==
    /\ pc = "toposort"
    /\ ~\E itv \in DOMAIN counter(cgroups) : counter(cgroups)[itv] > 1
    /\ processed' = cgroups
    /\ pc' = "returned"
    /\ UNCHANGED <<clusters, prefix, entry, backlog, known_flow_break, peels,
                   calls, elements, stack, topoVars>>
    /\ UNCHANGED passVars
    /\ UNCHANGED conquered
    /\ UNCHANGED pipeVars

\* lines 145-146
toposort_sameprefix ==
    /\ pc = "toposort"
    /\ \E itv \in DOMAIN counter(cgroups) : counter(cgroups)[itv] > 1
    /\ Cardinality(DOMAIN counter(cgroups)) = 1
    /\ processed' = cgroups
    /\ pc' = "returned"
    /\ UNCHANGED <<clusters, prefix, entry, backlog, known_flow_break, peels,
                   calls, elements, stack, topoVars>>
    /\ UNCHANGED passVars
    /\ UNCHANGED conquered
    /\ UNCHANGED pipeVars

\* line 148, and the start of dag.topological_sort (line 166): the in-degrees
\* and the queue of the nodes that have none
toposort_build ==
    /\ pc = "toposort"
    /\ \E itv \in DOMAIN counter(cgroups) : counter(cgroups)[itv] > 1
    /\ Cardinality(DOMAIN counter(cgroups)) # 1
    /\ dag' = build_dag(cgroups, prefix)
    /\ in_degree' = InDegree(dag', Len(cgroups))
    /\ queue' = EnqueueAll(<<>>,
                    Ascending({v \in 1..Len(cgroups) : in_degree'[v] = 0}))
    /\ scheduled' = <<>>
    /\ pc' = "sort"
    /\ UNCHANGED <<clusters, prefix, processed, entry, backlog,
                   known_flow_break, peels, calls, elements, stack, cgroups,
                   appendleft>>
    /\ UNCHANGED passVars
    /\ UNCHANGED conquered
    /\ UNCHANGED pipeVars

\* one turn of the loop of dag.topological_sort: choose_element picks a node,
\* and the successors it frees join the queue
topological_sort_step ==
    /\ pc = "sort"
    /\ queue # <<>>
    /\ LET u == choose_element(queue, scheduled)
           succ == {e[2] : e \in {f \in dag : f[1] = u}}
           deg == [v \in DOMAIN in_degree |->
                      IF v \in succ THEN in_degree[v] - 1 ELSE in_degree[v]]
       IN  /\ scheduled' = Append(scheduled, u)
           /\ in_degree' = deg
           /\ queue' = EnqueueAll(QueueAfterChoice(queue, scheduled),
                           Ascending({v \in succ : deg[v] = 0}))
    /\ UNCHANGED <<pc, clusters, prefix, processed, entry, backlog,
                   known_flow_break, peels, calls, elements, stack, cgroups,
                   dag, appendleft>>
    /\ UNCHANGED passVars
    /\ UNCHANGED conquered
    /\ UNCHANGED pipeVars

\* the end of dag.topological_sort (ValueError unless every node has been
\* scheduled), and line 168
topological_sort_return ==
    /\ pc = "sort"
    /\ queue = <<>>
    /\ IF Len(scheduled) = Len(cgroups)
       THEN /\ processed' = Groups(cgroups, scheduled)
            /\ pc' = "returned"
       ELSE /\ processed' = processed
            /\ pc' = "raised"
    /\ UNCHANGED <<clusters, prefix, entry, backlog, known_flow_break, peels,
                   calls, elements, stack, topoVars>>
    /\ UNCHANGED passVars
    /\ UNCHANGED conquered
    /\ UNCHANGED pipeVars

----------------------------------------------------------------------------
(* lift(clusters, prefix) *)

\* Cluster.used_dimensions: the dimensions that index the accesses
used_dimensions(c) ==
    UNION {DOMAIN c.exprs[k].widx
           \cup UNION {DOMAIN a.idx : a \in c.exprs[k].r} : k \in DOMAIN c.exprs}

\* Cluster.functions: the symbols the equations read or write
functions(c) ==
    UNION {{c.exprs[k].w} \cup {a.f : a \in c.exprs[k].r} : k \in DOMAIN c.exprs}

\* Cluster.scope.writes: the symbols the equations write
writes(c) == {c.exprs[k].w : k \in DOMAIN c.exprs}

\* line 258
hope_invariant(pfx) == {pfx[i].dim : i \in DOMAIN pfx}

\* lines 259-262, as positions of `clusters`
lift_candidates(cs, pfx) ==
    {i \in DOMAIN cs :
        /\ \E k \in DOMAIN cs[i].exprs : cs[i].exprs[k].tensor
        /\ ~\E k \in DOMAIN cs[i].exprs : cs[i].exprs[k].increment
        /\ used_dimensions(cs[i]) \cap hope_invariant(pfx) = {}}

\* line 270 as it would read with clusters[i+1:] for set(clusters) - {c}
impactedLater(cs, i) == {j \in DOMAIN cs : j > i}

\* line 270: every cluster but c itself
impacted(cs, i) == DOMAIN cs \ {i}

\* lines 271-272
IsLifted(cs, pfx, i) ==
    /\ i \in lift_candidates(cs, pfx)
    /\ ~\E j \in impacted(cs, i) : functions(cs[i]) \cap writes(cs[j]) # {}

\* IterationSpace.project(key): the intervals and directions of the kept loops
Project(ispace, keep) ==
    IterationSpace(SelectSeq2(ispace.intervals, keep),
                   [d \in (DOMAIN ispace.directions) \cap keep |->
                       ispace.directions[d]])

\* lines 274-277
Contracted(c, pfx) ==
    Cluster(c.exprs, Project(c.ispace, IterDims \ hope_invariant(pfx)),
            c.dspace \ hope_invariant(pfx), c.guards)

lift_result_appended(up, rest) == rest \o up

\* line 281: lifted + processed
lift_result(up, rest) == up \o rest

\* lines 254-256
lift_noprefix ==
    /\ pc = "lift"
    /\ prefix = <<>>
    /\ processed' = clusters
    /\ lifted' = <<>>
    /\ pc' = "returned"
    /\ UNCHANGED <<clusters, prefix, entry, backlog, known_flow_break, peels,
                   calls, elements, stack, topoVars, again>>
    /\ UNCHANGED conquered
    /\ UNCHANGED pipeVars

\* lines 263-264
lift_nocandidates ==
    /\ pc = "lift"
    /\ prefix # <<>>
    /\ lift_candidates(clusters, prefix) = {}
    /\ processed' = clusters
    /\ lifted' = <<>>
    /\ pc' = "returned"
    /\ UNCHANGED <<clusters, prefix, entry, backlog, known_flow_break, peels,
                   calls, elements, stack, topoVars, again>>
    /\ UNCHANGED conquered
    /\ UNCHANGED pipeVars

\* lines 267-281
lift_return ==
    /\ pc = "lift"
    /\ prefix # <<>>
    /\ lift_candidates(clusters, prefix) # {}
    /\ LET up == Ascending({i \in DOMAIN clusters :
                                IsLifted(clusters, prefix, i)})
           rest == Ascending({i \in DOMAIN clusters :
                                ~IsLifted(clusters, prefix, i)})
       IN  /\ lifted' = up
           /\ processed' =
                  lift_result(
                      [k \in DOMAIN up |-> Contracted(clusters[up[k]], prefix)],
                      [k \in DOMAIN rest |-> clusters[rest[k]]])
    /\ pc' = "returned"
    /\ UNCHANGED <<clusters, prefix, entry, backlog, known_flow_break, peels,
                   calls, elements, stack, topoVars, again>>
    /\ UNCHANGED conquered
    /\ UNCHANGED pipeVars

----------------------------------------------------------------------------
(* fuse(clusters) *)

\* Cluster.from_clusters: the equations in order, the common iteration space,
\* the union of the data spaces, no guards
from_clusters(run) ==
    Cluster(ExprsOf(run), run[1].ispace,
            UNION {run[k].dspace : k \in DOMAIN run}, NoGuards)

\* line 292 without its test of the guards
UntouchedIgnoringGuards(run) == Len(run) = 1

\* line 292
Untouched(run) ==
    Len(run) = 1 \/ \E k \in DOMAIN run : run[k].guards # NoGuards

\* lines 292-297
FuseRun(run) == IF Untouched(run) THEN run ELSE <<from_clusters(run)>>

\* lines 288-299
fuse(cs) ==
    LET groups == groupby(cs, [i \in DOMAIN cs |-> itintervals(cs[i])])
    IN  Flatten([k \in DOMAIN groups |-> FuseRun(groups[k])])

call_fuse ==
    /\ pc = "fuse"
    /\ processed' = fuse(clusters)
    /\ pc' = "returned"
    /\ UNCHANGED <<clusters, prefix, entry, backlog, known_flow_break, peels,
                   calls, elements, stack, topoVars, passVars>>
    /\ UNCHANGED conquered
    /\ UNCHANGED pipeVars

----------------------------------------------------------------------------
(* guard(clusters) *)

ConditionalDimension(name, parent, factor, condition) ==
    [name |-> name, parent |-> parent, factor |-> factor,
     condition |-> condition]

\* Symbolic expressions: parent % factor, CondEq(lhs, rhs), sympy.And(*args)
Mod(parent, factor) == [op |-> "Mod", args |-> <<parent, factor>>]

CondEq(lhs, rhs) == [op |-> "CondEq", args |-> <<lhs, rhs>>]

And(args) == [op |-> "And", args |-> args]

Lt(lhs, rhs) == [op |-> "Lt", args |-> <<lhs, rhs>>]

\* line 319 as it would read without `d.condition or`
ConditionByFactor(d) == CondEq(Mod(d.parent, d.factor), 0)

\* line 319: d.condition or CondEq(d.parent % d.factor, 0)
ConditionOf(d) ==
    IF d.condition # <<>> THEN d.condition[1]
    ELSE CondEq(Mod(d.parent, d.factor), 0)

\* lines 317-319: one list of conditions per parent dimension
RECURSIVE Conditions(_, _)
Conditions(ds, guards) ==
    IF ds = <<>> THEN guards
    ELSE LET d == Head(ds)
             condition == IF d.parent \in DOMAIN guards
                          THEN guards[d.parent] ELSE <<>>
         IN  Conditions(Tail(ds),
                 DictMerge(guards,
                     [p \in {d.parent} |-> Append(condition, ConditionOf(d))]))

\* lines 312-313 without the reset of line 314
FreeKept(free) == free

\* line 314: free = []
FreeAfterFlush(free) == <<>>

\* lines 317-319 without the reset of line 316
GuardsKept(previous) == previous

\* line 316: guards = {}, whatever the equation before left in it
GuardsReset(previous) == <<>>

\* lines 312-313 and 325-326
Flush(free, c) ==
    IF free # <<>> THEN <<Cluster(free, c.ispace, c.dspace, NoGuards)>>
    ELSE <<>>

\* lines 309-326: the clusters made of the equations `es` of cluster c, given
\* the pending free run and the condition lists of the last guarded equation
RECURSIVE Split(_, _, _, _)
Split(es, free, previous, c) ==
    IF es = <<>> THEN Flush(free, c)
    ELSE LET e == Head(es)
         IN  IF e.conditionals # <<>>
             THEN LET lists == Conditions(e.conditionals, GuardsReset(previous))
                      guards == [k \in DOMAIN lists |-> And(lists[k])]
                  IN  Flush(free, c)
                      \o <<Cluster(<<e>>, c.ispace, c.dspace, guards)>>
                      \o Split(Tail(es),
                               IF free # <<>> THEN FreeAfterFlush(free)
                               ELSE free,
                               lists, c)
             ELSE Split(Tail(es), Append(free, e), previous, c)

\* lines 306-328
guard(cs) == Flatten([i \in DOMAIN cs |-> Split(cs[i].exprs, <<>>, <<>>, cs[i])])

call_guard ==
    /\ pc = "guard"
    /\ processed' = guard(clusters)
    /\ pc' = "returned"
    /\ UNCHANGED <<clusters, prefix, entry, backlog, known_flow_break, peels,
                   calls, elements, stack, topoVars, passVars>>
    /\ UNCHANGED conquered
    /\ UNCHANGED pipeVars

\* guard applied to what guard returned
call_guard_again ==
    /\ pc = "returned"
    /\ again = <<>>
    /\ again' = <<guard(processed)>>
    /\ pc' = "returned twice"
    /\ UNCHANGED <<clusters, prefix, processed, entry, backlog,
                   known_flow_break, peels, calls, elements, stack, topoVars,
                   lifted>>
    /\ UNCHANGED conquered
    /\ UNCHANGED pipeVars

----------------------------------------------------------------------------
(* clusterize(exprs): the stages *)

\* aggregate as it would be if it kept the first group only
aggregate_first(cgs, pfx) ==
    <<ClusterGroup(IF cgs = <<>> THEN <<>> ELSE cgs[1].clusters, pfx)>>

\* ClusterGroup.concatenate, and ClusterGroup(cgroups, ..): the clusters of
\* the groups, in order
concatenate(cgs) == Flatten([k \in DOMAIN cgs |-> cgs[k].clusters])

\* lines 171-175
aggregate(cgs, pfx) == <<ClusterGroup(concatenate(cgs), pfx)>>

\* line 68, the second callback of Queue(toposort, aggregate)
call_aggregate ==
    /\ pc = "returned"
    /\ stage = "toposort"
    /\ stack # <<>>
    /\ processed' = aggregate(processed, prefix)
    /\ pc' = "aggregated"
    /\ UNCHANGED <<clusters, prefix, entry, backlog, known_flow_break, peels,
                   calls, elements, stack, topoVars, passVars, conquered,
                   pipeVars>>

\* lines 27-28: one ClusterGroup per Cluster, handed to
\* Queue(toposort, aggregate).process
stage_toposort ==
    /\ pc = "done"
    /\ stage = "enforce"
    /\ elements' = [i \in DOMAIN processed |->
                       ClusterGroup(<<processed[i]>>, itintervals(processed[i]))]
    /\ stack' = <<Frame(1, <<>>, elements')>>
    /\ processed' = <<>>
    /\ stage' = "toposort"
    /\ pc' = "queue"
    /\ UNCHANGED <<clusters, prefix, entry, backlog, known_flow_break, peels,
                   calls, topoVars, passVars, conquered, equations>>

\* lines 29, 32 and 245: the clusters of the groups, handed to
\* Queue(lift).process
stage_lift ==
    /\ pc = "done"
    /\ stage = "toposort"
    /\ elements' = concatenate(processed)
    /\ stack' = <<Frame(1, <<>>, elements')>>
    /\ processed' = <<>>
    /\ stage' = "lift"
    /\ pc' = "queue"
    /\ UNCHANGED <<clusters, prefix, entry, backlog, known_flow_break, peels,
                   calls, topoVars, passVars, conquered, equations>>

\* line 248
stage_fuse ==
    /\ pc = "done"
    /\ stage = "lift"
    /\ clusters' = processed
    /\ processed' = <<>>
    /\ stage' = "fuse"
    /\ pc' = "fuse"
    /\ UNCHANGED <<prefix, entry, backlog, known_flow_break, peels, calls,
                   elements, stack, topoVars, passVars, conquered, equations>>

\* lines 250 and 35
stage_guard ==
    /\ pc = "returned"
    /\ stage = "fuse"
    /\ clusters' = processed
    /\ processed' = <<>>
    /\ stage' = "guard"
    /\ pc' = "guard"
    /\ UNCHANGED <<prefix, entry, backlog, known_flow_break, peels, calls,
                   elements, stack, topoVars, passVars, conquered, equations>>

\* line 37
clusterize_return ==
    /\ pc = "returned"
    /\ stage = "guard"
    /\ pc' = "clusterized"
    /\ UNCHANGED <<clusters, prefix, processed, entry, backlog,
                   known_flow_break, peels, calls, elements, stack, topoVars,
                   passVars, conquered, pipeVars>>

----------------------------------------------------------------------------
(* Routines that are not running *)

TopoIdle ==
    /\ cgroups = <<>>
    /\ dag = {}
    /\ in_degree = <<>>
    /\ queue = <<>>
    /\ scheduled = <<>>
    /\ appendleft = FALSE

EnforceIdle ==
    /\ clusters = <<>>
    /\ entry = <<>>
    /\ backlog = <<>>
    /\ known_flow_break = {}
    /\ peels = 0
    /\ calls = 0

QueueIdle ==
    /\ elements = <<>>
    /\ stack = <<>>
    /\ conquered = <<>>

PassIdle ==
    /\ lifted = <<>>
    /\ again = <<>>

PipeIdle ==
    /\ stage = "none"
    /\ equations = <<>>

----------------------------------------------------------------------------
(* Inputs of enforce *)

Symbols == {"u", "v"}

ZeroIdx == [d \in IterDims |-> 0]

\* w[t, xl, xr] = F(rd[.. ro + 1 ..]): one read, shifted by one along `ro`
ShiftedEq(id, w, rd, ro) ==
    Eq(id, w, ZeroIdx, {Access(rd, [ZeroIdx EXCEPT ![ro] = 1])},
       TRUE, FALSE, <<>>)

\* A shape is (written symbol, read symbol, twin): with `twin` the cluster
\* holds a second equation that writes what the first reads and reads what
\* the first writes
EnforceShapes == Symbols \X Symbols \X BOOLEAN

ShapeExprs(i, shape, ro) ==
    <<ShiftedEq(2 * i - 1, shape[1], shape[2], ro)>>
    \o (IF shape[3] THEN <<ShiftedEq(2 * i, shape[2], shape[1], ro)>>
                    ELSE <<>>)

EnforceInput(shapes, dims) ==
    [i \in DOMAIN shapes |->
        Cluster(ShapeExprs(i, shapes[i], "xl"),
                IterationSpace([k \in DOMAIN dims |-> Interval(dims[k])],
                               [d \in Range(dims) |-> Any]),
                Range(dims), NoGuards)]

EnforcePrefixes == {<<>>, <<"t">>, <<"t", "xl">>}

PrefixOf(dims, c) == SubSeq(itintervals(c), 1, Len(dims))

InitEnforce ==
    /\ \E shapes \in SeqsUpTo(EnforceShapes, 1, MaxClusters),
          dims \in EnforcePrefixes :
        /\ clusters = EnforceInput(shapes, <<"t", "xl">>)
        /\ prefix = PrefixOf(dims, EnforceInput(shapes, <<"t", "xl">>)[1])
    /\ entry = clusters
    /\ processed = <<>>
    /\ backlog = <<>>
    /\ known_flow_break = {}
    /\ peels = 0
    /\ calls = 0
    /\ pc = "enforce"
    /\ elements = <<>>
    /\ stack = <<>>
    /\ conquered = <<>>
    /\ TopoIdle
    /\ PassIdle
    /\ PipeIdle

NextEnforce ==
    \/ enforce_noprefix
    \/ enforce_peel
    \/ enforce_raise
    \/ enforce_return
    \/ enforce_backlog

SpecEnforce == InitEnforce /\ [][NextEnforce]_vars

----------------------------------------------------------------------------
(* Inputs of Queue(enforce).process *)

QueueDims == {<<>>, <<"t">>, <<"t", "xl">>}

QueueShapes == QueueDims \X Symbols \X Symbols

\* line 19: one Cluster per equation, every direction still Any
QueueInput(shapes) ==
    [i \in DOMAIN shapes |->
        Cluster(<<ShiftedEq(i, shapes[i][2], shapes[i][3], "t")>>,
                IterationSpace([k \in DOMAIN shapes[i][1] |->
                                    Interval(shapes[i][1][k])],
                               [d \in Range(shapes[i][1]) |-> Any]),
                Range(shapes[i][1]), NoGuards)]

\* line 72: process(elements) is _process(elements, 1)
InitQueue ==
    /\ \E shapes \in SeqsUpTo(QueueShapes, 0, MaxElements) :
        elements = QueueInput(shapes)
    /\ stack = <<Frame(1, <<>>, elements)>>
    /\ conquered = <<>>
    /\ pc = "queue"
    /\ clusters = <<>>
    /\ prefix = <<>>
    /\ entry = <<>>
    /\ processed = <<>>
    /\ backlog = <<>>
    /\ known_flow_break = {}
    /\ peels = 0
    /\ calls = 0
    /\ TopoIdle
    /\ PassIdle
    /\ stage = "enforce"
    /\ equations = ExprsOf(elements)

NextQueue ==
    \/ queue_base
    \/ queue_recurse
    \/ queue_conquer
    \/ queue_return
    \/ enforce_noprefix
    \/ enforce_peel
    \/ enforce_raise
    \/ enforce_return
    \/ enforce_backlog

SpecQueue == InitQueue /\ [][NextQueue]_vars

----------------------------------------------------------------------------
(* Inputs of toposort *)

\* u[..] = F(): an equation that reads nothing
WriteOnlyEq(id, w) == Eq(id, w, ZeroIdx, {}, TRUE, FALSE, <<>>)

\* (written symbol, read symbol or "none", dimension the read is shifted along)
TopoShapes ==
    {<<"u", "none", "t">>, <<"u", "v", "xl">>,
     <<"v", "u", "t">>, <<"v", "u", "xl">>}

\* The loops of a group: the time loop, then one sub-domain of x
TopoDims == {<<"t", "xl">>, <<"t", "xr">>}

TopoEq(i, shape) ==
    IF shape[2] = "none" THEN WriteOnlyEq(i, shape[1])
    ELSE ShiftedEq(i, shape[1], shape[2], shape[3])

\* line 27: ClusterGroup(c, c.itintervals), the directions already enforced
TopoInput(shapes) ==
    [i \in DOMAIN shapes |->
        LET dims == shapes[i][1]
            c == Cluster(<<TopoEq(i, shapes[i][2])>>,
                         IterationSpace([k \in DOMAIN dims |-> Interval(dims[k])],
                                        [d \in Range(dims) |-> Forward]),
                         Range(dims), NoGuards)
        IN  ClusterGroup(<<c>>, itintervals(c))]

InitToposort ==
    /\ \E shapes \in SeqsUpTo(TopoDims \X TopoShapes, 0, MaxGroups) :
        cgroups = TopoInput(shapes)
    /\ prefix = <<[dim |-> "t", stamp |-> 0, dir |-> Forward]>>
    /\ appendleft \in BOOLEAN
    /\ dag = {}
    /\ in_degree = <<>>
    /\ queue = <<>>
    /\ scheduled = <<>>
    /\ processed = <<>>
    /\ pc = "toposort"
    /\ EnforceIdle
    /\ QueueIdle
    /\ PassIdle
    /\ PipeIdle

NextToposort ==
    \/ toposort_nofusion
    \/ toposort_sameprefix
    \/ toposort_build
    \/ topological_sort_step
    \/ topological_sort_return

SpecToposort == InitToposort /\ [][NextToposort]_vars

----------------------------------------------------------------------------
(* Inputs of lift *)

\* What makes a cluster a candidate or not: "plain" writes an array indexed by
\* xl alone, "increment" is a reduction, "scalar" writes a scalar,
\* "timevarying" is indexed by t as well
LiftKinds == {"plain", "increment", "scalar", "timevarying"}

\* (written symbol, read symbol) over three symbols, so that two clusters
\* can be lifted past a third one that touches neither of their symbols
LiftAccesses == {<<"u", "u">>, <<"v", "v">>, <<"w", "v">>, <<"v", "u">>}

LiftShapes == LiftKinds \X LiftAccesses

\* The guard of the clusters at even positions
LiftGuard == [p \in {"xl"} |-> And(<<CondEq(Mod("xl", 2), 0)>>)]

SpaceIdx == [d \in {"xl"} |-> 0]

SpaceTimeIdx == [d \in {"t", "xl"} |-> 0]

\* w[..] = F(rd[.. xl + 1]) of the given kind
LiftEq(id, kind, w, rd) ==
    LET idx == IF kind = "timevarying" THEN SpaceTimeIdx ELSE SpaceIdx
    IN  Eq(id, w, IF kind = "scalar" THEN <<>> ELSE idx,
           {Access(rd, [idx EXCEPT !["xl"] = 1])},
           kind # "scalar", kind = "increment", <<>>)

LiftInput(shapes) ==
    [i \in DOMAIN shapes |->
        Cluster(<<LiftEq(i, shapes[i][1], shapes[i][2][1], shapes[i][2][2])>>,
                IterationSpace(<<Interval("t"), Interval("xl")>>,
                               [d \in {"t", "xl"} |-> Forward]),
                {"t", "xl"},
                IF i % 2 = 0 THEN LiftGuard ELSE NoGuards)]

LiftPrefixes == {<<>>, <<[dim |-> "t", stamp |-> 0, dir |-> Forward]>>}

InitLift ==
    /\ \E shapes \in SeqsUpTo(LiftShapes, 0, MaxLift) :
        clusters = LiftInput(shapes)
    /\ prefix \in LiftPrefixes
    /\ processed = <<>>
    /\ pc = "lift"
    /\ entry = <<>>
    /\ backlog = <<>>
    /\ known_flow_break = {}
    /\ peels = 0
    /\ calls = 0
    /\ QueueIdle
    /\ TopoIdle
    /\ PassIdle
    /\ PipeIdle

NextLift ==
    \/ lift_noprefix
    \/ lift_nocandidates
    \/ lift_return

SpecLift == InitLift /\ [][NextLift]_vars

----------------------------------------------------------------------------
(* Inputs of fuse *)

\* The loops of a cluster: (dimensions, direction of the innermost one)
FuseSpaces ==
    {<<<<"t">>, Forward>>, <<<<"t", "xl">>, Forward>>,
     <<<<"t", "xl">>, Backward>>}

\* (loops, whether the cluster carries a guard)
FuseShapes == FuseSpaces \X BOOLEAN

SomeGuard == [p \in {"t"} |-> And(<<CondEq(Mod("t", 2), 0)>>)]

\* Clusters at even positions hold two equations, the others one
FuseInput(shapes) ==
    [i \in DOMAIN shapes |->
        LET dims == shapes[i][1][1]
        IN  Cluster(<<WriteOnlyEq(2 * i - 1, "u")>>
                    \o (IF i % 2 = 0 THEN <<WriteOnlyEq(2 * i, "v")>>
                                     ELSE <<>>),
                    IterationSpace([k \in DOMAIN dims |-> Interval(dims[k])],
                        [d \in Range(dims) |->
                            IF d = Last(dims) THEN shapes[i][1][2]
                            ELSE Forward]),
                    Range(dims),
                    IF shapes[i][2] THEN SomeGuard ELSE NoGuards)]

InitFuse ==
    /\ \E shapes \in SeqsUpTo(FuseShapes, 0, MaxFuse) :
        clusters = FuseInput(shapes)
    /\ prefix = <<>>
    /\ processed = <<>>
    /\ pc = "fuse"
    /\ entry = <<>>
    /\ backlog = <<>>
    /\ known_flow_break = {}
    /\ peels = 0
    /\ calls = 0
    /\ QueueIdle
    /\ TopoIdle
    /\ PassIdle
    /\ PipeIdle

NextFuse == call_fuse

SpecFuse == InitFuse /\ [][NextFuse]_vars

----------------------------------------------------------------------------
(* Inputs of guard *)

\* The conditional dimensions of an equation: none; one with the default
\* condition; two of the same parent, one with an explicit condition; two of
\* different parents. The condition of a dimension is <<>> for None
GuardKinds == {"free", "one", "same", "other"}

Conditionals(kind) ==
    IF kind = "free" THEN <<>>
    ELSE IF kind = "one"
    THEN <<ConditionalDimension("tsub", "t", 2, <<>>)>>
    ELSE IF kind = "same"
    THEN <<ConditionalDimension("tsub", "t", 2, <<>>),
           ConditionalDimension("tsave", "t", 4, <<Lt("t", 8)>>)>>
    ELSE <<ConditionalDimension("xsub", "xl", 3, <<>>),
           ConditionalDimension("tsub", "t", 2, <<>>)>>

\* (conditional dimensions, whether the equation opens a new cluster)
GuardShapes == GuardKinds \X BOOLEAN

GuardEq(id, kind) == Eq(id, "u", ZeroIdx, {}, TRUE, FALSE, Conditionals(kind))

\* The cluster that holds the equation at position i
ClusterOf(shapes, i) == 1 + Cardinality({j \in 2..i : shapes[j][2]})

\* Clusters at even positions run over xr and carry a guard of their own
GuardInput(shapes) ==
    [k \in 1..(IF shapes = <<>> THEN 0 ELSE ClusterOf(shapes, Len(shapes))) |->
        LET members == {i \in DOMAIN shapes : ClusterOf(shapes, i) = k}
            dims == IF k % 2 = 0 THEN <<"t", "xr">> ELSE <<"t", "xl">>
        IN  Cluster([n \in 1..Cardinality(members) |->
                        GuardEq(Min(members) + n - 1,
                                shapes[Min(members) + n - 1][1])],
                    IterationSpace([n \in DOMAIN dims |-> Interval(dims[n])],
                                   [d \in Range(dims) |-> Forward]),
                    Range(dims),
                    IF k % 2 = 0 THEN SomeGuard ELSE NoGuards)]

InitGuard ==
    /\ \E shapes \in SeqsUpTo(GuardShapes, 0, MaxGuardEqs) :
        clusters = GuardInput(shapes)
    /\ prefix = <<>>
    /\ processed = <<>>
    /\ pc = "guard"
    /\ entry = <<>>
    /\ backlog = <<>>
    /\ known_flow_break = {}
    /\ peels = 0
    /\ calls = 0
    /\ QueueIdle
    /\ TopoIdle
    /\ PassIdle
    /\ PipeIdle

NextGuard ==
    \/ call_guard
    \/ call_guard_again

SpecGuard == InitGuard /\ [][NextGuard]_vars

----------------------------------------------------------------------------
(* Inputs of clusterize *)

\* What an equation does: "init" writes u; "stencil" writes the temporary v
\* from u at xl + 1; "back" writes u from v at xl + 1; "invariant" writes w,
\* indexed by xl alone, from w; "guarded" writes u under two conditional
\* dimensions. A shape is (loops, what the equation does)
PipeShapes ==
    ({<<"t", "xl">>, <<"t", "xr">>} \X {"init", "stencil", "back"})
    \cup ({<<"t", "xl">>} \X {"invariant", "guarded"})

PipeEq(i, kind) ==
    IF kind = "init" THEN WriteOnlyEq(i, "u")
    ELSE IF kind = "stencil" THEN ShiftedEq(i, "v", "u", "xl")
    ELSE IF kind = "back" THEN ShiftedEq(i, "u", "v", "xl")
    ELSE IF kind = "invariant" THEN LiftEq(i, "plain", "w", "w")
    ELSE GuardEq(i, "same")

\* line 19: Cluster(e, e.ispace, e.dspace), every direction still Any
PipeInput(shapes) ==
    [i \in DOMAIN shapes |->
        Cluster(<<PipeEq(i, shapes[i][2])>>,
                IterationSpace([k \in DOMAIN shapes[i][1] |->
                                    Interval(shapes[i][1][k])],
                               [d \in Range(shapes[i][1]) |-> Any]),
                Range(shapes[i][1]), NoGuards)]

InitClusterize ==
    /\ \E shapes \in SeqsUpTo(PipeShapes, 0, MaxExprs) :
        elements = PipeInput(shapes)
    /\ equations = ExprsOf(elements)
    /\ stage = "enforce"
    /\ stack = <<Frame(1, <<>>, elements)>>
    /\ conquered = <<>>
    /\ pc = "queue"
    /\ clusters = <<>>
    /\ prefix = <<>>
    /\ entry = <<>>
    /\ processed = <<>>
    /\ backlog = <<>>
    /\ known_flow_break = {}
    /\ peels = 0
    /\ calls = 0
    /\ cgroups = <<>>
    /\ dag = {}
    /\ in_degree = <<>>
    /\ queue = <<>>
    /\ scheduled = <<>>
    /\ appendleft \in BOOLEAN
    /\ PassIdle

NextClusterize ==
    \/ queue_base
    \/ queue_recurse
    \/ queue_conquer
    \/ conquer_toposort
    \/ conquer_lift
    \/ queue_return
    \/ enforce_noprefix
    \/ enforce_peel
    \/ enforce_raise
    \/ enforce_return
    \/ enforce_backlog
    \/ toposort_nofusion
    \/ toposort_sameprefix
    \/ toposort_build
    \/ topological_sort_step
    \/ topological_sort_return
    \/ call_aggregate
    \/ lift_noprefix
    \/ lift_nocandidates
    \/ lift_return
    \/ call_fuse
    \/ call_guard
    \/ stage_toposort
    \/ stage_lift
    \/ stage_fuse
    \/ stage_guard
    \/ clusterize_return

SpecClusterize == InitClusterize /\ [][NextClusterize]_vars

----------------------------------------------------------------------------
(* Claims about enforce *)

ResolvedDirections == {Forward, Backward}

HasAny(c) == \E k \in DOMAIN itintervals(c) : itintervals(c)[k].dir = Any

\* C3: once Queue(enforce).process has returned, every iteration interval of
\* every returned cluster has direction Forward or Backward, never Any.
NoResidualAny ==
    pc = "done" =>
        \A i \in DOMAIN processed :
            \A k \in DOMAIN itintervals(processed[i]) :
                itintervals(processed[i])[k].dir \in ResolvedDirections

\* A run that returned three clusters, one of which went through the backlog
\* (its interval was lifted) and so had its direction reset to Any on the way
NoResidualAnyWitness ==
    /\ pc = "done"
    /\ Len(processed) = 3
    /\ \E i \in DOMAIN processed :
        /\ \E k \in DOMAIN itintervals(processed[i]) :
            itintervals(processed[i])[k].stamp > 0
        /\ ~HasAny(processed[i])

EnforceGroupSize == Len(entry)

\* C4 as stated: over a whole call of enforce on N >= 1 clusters with a
\* non-empty prefix, at most N clusters are moved into the backlog.
PeelsAtMostN ==
    (prefix # <<>> /\ EnforceGroupSize >= 1) => peels <= EnforceGroupSize

\* C4 as amended: a call of enforce on N >= 1 clusters with a non-empty prefix
\* terminates (every step of the model is one invocation of enforce, and a
\* call makes at most N * (N + 1) / 2 of them), and it moves at most
\* N * (N - 1) / 2 clusters into the backlog.
EnforceTerminates ==
    (prefix # <<>> /\ EnforceGroupSize >= 1) =>
        /\ 2 * peels <= EnforceGroupSize * (EnforceGroupSize - 1)
        /\ 2 * calls <= EnforceGroupSize * (EnforceGroupSize + 1)
        /\ pc \in {"enforce", "returned", "raised"}

\* Four clusters, each in conflict with its neighbour: 3 + 2 + 1 peels
EnforceTerminatesWitness ==
    /\ pc = "returned"
    /\ prefix # <<>>
    /\ EnforceGroupSize = 4
    /\ peels = 6
    /\ Len(processed) = 4

\* The direction the claim gives dimension d of cluster c of the group cs
ClaimedDirection(cs, pfx, c, d) ==
    IF d \in candidates(pfx)
    THEN IF d \in Causes(d_flow(ExprsOf(cs))) THEN Forward
         ELSE IF d \in Causes(d_anti(ExprsOf(cs))) THEN Backward
         ELSE Forward
    ELSE c.ispace.directions[d]

\* C9: when enforce does not peel it completes without error and every
\* cluster it returns has Forward on each candidate dimension that is a
\* flow-dependence cause, Backward on each candidate dimension that is an
\* anti-dependence cause and no flow-dependence cause, Forward on the other
\* candidate dimensions, and its input direction on every other dimension.
DirectionAssignment ==
    [][NoPeel =>
        /\ pc' # "raised"
        /\ Len(processed') = Len(processed) + Len(clusters)
        /\ \A i \in DOMAIN clusters :
            LET c == processed'[Len(processed) + i]
            IN  /\ DOMAIN c.ispace.directions =
                     (DOMAIN clusters[i].ispace.directions)
                         \cup candidates(prefix)
                /\ \A d \in DOMAIN c.ispace.directions :
                     c.ispace.directions[d] =
                         ClaimedDirection(clusters, prefix, clusters[i], d)
    ]_vars

----------------------------------------------------------------------------
(* Claims about build_dag and toposort *)

\* The pairs the claims speak of: the Scope over the equations of both groups
\* holds an anti-dependence that neither group's own scope holds, or a
\* flow-dependence that neither group's own scope holds and whose cause has a
\* dimension outside prefix
MustPrecede(cg0, cg1, pfx) ==
    LET both == exprs(cg0) \o exprs(cg1)
        Own(dep, deps(_)) == dep \in deps(exprs(cg0)) \/ dep \in deps(exprs(cg1))
    IN  \/ \E dep \in d_anti(both) : ~Own(dep, d_anti)
        \/ \E dep \in d_flow(both) :
              /\ ~Own(dep, d_flow)
              /\ \E d \in dep.cause : d \notin PrefixDims(pfx)

DependentPairs ==
    {p \in OrderedPairs(Len(cgroups)) :
        MustPrecede(cgroups[p[1]], cgroups[p[2]], prefix)}

\* a occurs in seq, and b occurs only after it
Precedes(seq, a, b) ==
    /\ \E i, j \in DOMAIN seq : i < j /\ seq[i] = a /\ seq[j] = b
    /\ ~\E i, j \in DOMAIN seq : i <= j /\ seq[i] = b /\ seq[j] = a

DagBuilt == in_degree # <<>>

\* C1: for every pair g0, g1 with g0 before g1 in the input of toposort that
\* must be kept in order (MustPrecede), g0 precedes g1 in the sequence that
\* toposort returns.
DependencePreserved ==
    (pc = "returned" /\ cgroups # <<>>) =>
        \A p \in DependentPairs :
            Precedes(processed, cgroups[p[1]], cgroups[p[2]])

\* C2: if toposort built the DAG, then for every edge g0 -> g1 of the DAG g0
\* comes before g1 in the returned sequence, which holds every group once;
\* and while the sequence is being built no g1 is scheduled before its g0.
TopologicalValidity ==
    DagBuilt =>
        /\ \A e \in dag :
              e[2] \in Range(scheduled) => Precedes(scheduled, e[1], e[2])
        /\ pc = "returned" =>
              /\ Len(processed) = Len(cgroups)
              /\ \A e \in dag :
                    Precedes(processed, cgroups[e[1]], cgroups[e[2]])

\* A sort over a DAG with two edges or more that moved some group
TopologicalValidityWitness ==
    /\ pc = "returned"
    /\ DagBuilt
    /\ Cardinality(dag) >= 2
    /\ processed # cgroups

\* C10: the DAG that build_dag returns has the edge g0 -> g1 for every pair
\* g0 before g1 of cgroups (adjacent or not) that must be kept in order
\* (MustPrecede), and no other edge.
DagCapturesAll == DagBuilt => dag = DependentPairs

----------------------------------------------------------------------------
(* Claims about fuse *)

\* The positions of the maximal run of adjacent clusters, all with the
\* iteration intervals of the one at position i, that holds position i
RunOf(i) ==
    {j \in DOMAIN clusters :
        \A k \in (IF i < j THEN i ELSE j)..(IF i < j THEN j ELSE i) :
            itintervals(clusters[k]) = itintervals(clusters[i])}

Fusible(i) ==
    /\ Cardinality(RunOf(i)) >= 2
    /\ \A j \in RunOf(i) : clusters[j].guards = NoGuards

\* The position in the result of what the cluster at position i has become:
\* one place per fusible run and one per cluster outside such runs
Place(i) ==
    Cardinality({j \in 1..i : j = 1 \/ ~Fusible(j) \/ (j - 1) \notin RunOf(j)})

\* C5: fuse replaces every maximal run of two or more adjacent clusters with
\* equal iteration intervals and no guard by one cluster that holds the
\* equations of the run in input order; every other cluster is returned
\* unchanged, at its place
FusionCorrectness ==
    pc = "returned" =>
        /\ Len(processed) =
               (IF clusters = <<>> THEN 0 ELSE Place(Len(clusters)))
        /\ \A i \in DOMAIN clusters :
            /\ Place(i) \in DOMAIN processed
            /\ IF Fusible(i)
               THEN LET run == Ascending(RunOf(i))
                    IN  /\ processed[Place(i)].exprs =
                               ExprsOf([k \in DOMAIN run |-> clusters[run[k]]])
                        /\ itintervals(processed[Place(i)]) =
                               itintervals(clusters[i])
                        /\ processed[Place(i)].guards = NoGuards
               ELSE processed[Place(i)] = clusters[i]

FusionCorrectnessWitness ==
    /\ pc = "returned"
    /\ Len(clusters) = 4
    /\ Len(processed) = 3
    /\ Fusible(1) /\ RunOf(1) = {1, 2}
    /\ ~Fusible(3) /\ RunOf(3) = {3, 4}
    /\ Len(processed[1].exprs) = 3

----------------------------------------------------------------------------
(* Claims about lift *)

\* C6: a lifted cluster holds no increment, uses no dimension of the prefix,
\* and shares no symbol with what another cluster of the sequence writes; a
\* cluster that is not lifted is returned with its iteration space and data
\* space unchanged
LiftingSafety ==
    (pc = "returned" /\ prefix # <<>>) =>
        \A i \in DOMAIN clusters :
            IF i \in Range(lifted)
            THEN /\ ~\E k \in DOMAIN clusters[i].exprs :
                        clusters[i].exprs[k].increment
                 /\ \A n \in DOMAIN prefix :
                        prefix[n].dim \notin used_dimensions(clusters[i])
                 /\ \A j \in DOMAIN clusters :
                        j # i =>
                            \A k \in DOMAIN clusters[j].exprs :
                                clusters[j].exprs[k].w
                                    \notin functions(clusters[i])
            ELSE \E n \in DOMAIN processed :
                    /\ processed[n].exprs = clusters[i].exprs
                    /\ processed[n].ispace = clusters[i].ispace
                    /\ processed[n].dspace = clusters[i].dspace

LiftingSafetyWitness ==
    /\ pc = "returned"
    /\ prefix # <<>>
    /\ Len(clusters) = 3
    /\ lifted = <<2>>
    /\ clusters[1].exprs[1].increment
    /\ 3 \in lift_candidates(clusters, prefix)
    /\ processed[1].ispace # clusters[2].ispace

----------------------------------------------------------------------------
(* Claims about guard *)

\* C7: the equations of the clusters guard returns are, in order, the
\* equations of the clusters it is given; an equation with conditional
\* dimensions is alone in its cluster
GuardPartitions ==
    (pc = "returned" /\ again = <<>>) =>
        /\ ExprsOf(processed) = ExprsOf(clusters)
        /\ \A n \in DOMAIN processed :
               (\E k \in DOMAIN processed[n].exprs :
                    processed[n].exprs[k].conditionals # <<>>)
                   => Len(processed[n].exprs) = 1

GuardPartitionsWitness ==
    /\ pc = "returned"
    /\ again = <<>>
    /\ Len(clusters) = 1
    /\ Len(processed) = 3
    /\ Len(processed[1].exprs) = 2
    /\ processed[2].exprs[1].conditionals # <<>>
    /\ Len(processed[3].exprs) = 1

\* C8: guard applied to the result of guard returns that result: as many
\* clusters, each with the same equations, iteration space, data space and
\* guards
GuardIdempotence ==
    pc = "returned twice" =>
        /\ Len(again[1]) = Len(processed)
        /\ \A n \in DOMAIN processed :
            /\ again[1][n].exprs = processed[n].exprs
            /\ again[1][n].ispace = processed[n].ispace
            /\ again[1][n].dspace = processed[n].dspace
            /\ again[1][n].guards = processed[n].guards

GuardIdempotenceWitness ==
    /\ pc = "returned twice"
    /\ Len(clusters) = 2
    /\ Len(processed) = 4
    /\ \E n \in DOMAIN processed :
        /\ "t" \in DOMAIN processed[n].guards
        /\ Len(processed[n].guards["t"].args) = 2
    /\ \E n \in DOMAIN processed :
        DOMAIN processed[n].guards = {"t", "xl"}
    /\ again[1] = processed

----------------------------------------------------------------------------
(* Claims about choose_element *)

\* The ready nodes that have the iteration intervals of the node scheduled
\* last and write no temporary array
ReadyAlike ==
    {v \in Range(queue) :
        /\ cgroups[v].itintervals = cgroups[Last(scheduled)].itintervals
        /\ \A k \in DOMAIN exprs(cgroups[v]) :
               exprs(cgroups[v])[k].w \notin Arrays}

\* C11: at every step of the sort after the first, if some ready node has the
\* iteration intervals of the node scheduled last and writes no temporary
\* array, the node scheduled is such a node; so a node that writes a
\* temporary array is scheduled only when there is no such node
FusionPreference ==
    [][(topological_sort_step /\ scheduled # <<>> /\ ReadyAlike # {})
          => Last(scheduled') \in ReadyAlike]_vars

\* A step has passed over a ready node with the iteration intervals of the
\* node scheduled before, because it writes a temporary array, and has taken
\* a node behind it in the queue
FusionPreferenceWitness ==
    /\ pc = "sort"
    /\ Len(scheduled) >= 2
    /\ cgroups[scheduled[Len(scheduled)]].itintervals
           = cgroups[scheduled[Len(scheduled) - 1]].itintervals
    /\ ~WritesArray(cgroups[Last(scheduled)])
    /\ queue # <<>>
    /\ WritesArray(cgroups[Head(queue)])
    /\ cgroups[Head(queue)].itintervals
           = cgroups[Last(scheduled)].itintervals
    /\ ~appendleft
    /\ Head(queue) < Last(scheduled)

\* The ready node that entered the queue first
Oldest(q) == IF appendleft THEN Last(q) ELSE Head(q)

\* C12: at every step of the sort at which no ready node meets the
\* preference, the first step included, the node scheduled is the one that
\* entered the queue first
FallbackOldest ==
    [][(topological_sort_step /\ (scheduled = <<>> \/ ReadyAlike = {}))
          => Last(scheduled') = Oldest(queue)]_vars

----------------------------------------------------------------------------
(* Claims about the result of lift *)

\* The positions of the clusters that lift could lift at all: an array is
\* written, nothing is incremented, no dimension of the prefix is used
Liftable ==
    {i \in DOMAIN clusters :
        /\ \E k \in DOMAIN clusters[i].exprs : clusters[i].exprs[k].tensor
        /\ \A k \in DOMAIN clusters[i].exprs : ~clusters[i].exprs[k].increment
        /\ \A n \in DOMAIN prefix :
               prefix[n].dim \notin used_dimensions(clusters[i])}

\* The positions that were not lifted, in input order
Stayed == Ascending(DOMAIN clusters \ Range(lifted))

\* The loops of a cluster that are not loops of the prefix, in order
LoopsLeft(c) ==
    LET dims == [n \in DOMAIN c.ispace.intervals |-> c.ispace.intervals[n].dim]
        RECURSIVE Without(_)
        Without(ds) ==
            IF ds = <<>> THEN <<>>
            ELSE IF \E n \in DOMAIN prefix : prefix[n].dim = Head(ds)
                 THEN Without(Tail(ds))
                 ELSE <<Head(ds)>> \o Without(Tail(ds))
    IN  Without(dims)

\* C13: lift returns as many clusters as it is given: first the lifted ones
\* in input order, with the same equations and guards and with the dimensions
\* of the prefix gone from their iteration space and data space, then the
\* others, unchanged and in input order; without a prefix or a candidate it
\* returns its input
LiftOrder ==
    pc = "returned" =>
        /\ Len(processed) = Len(clusters)
        /\ \A k \in DOMAIN lifted :
            /\ lifted[k] \in DOMAIN clusters
            /\ k > 1 => lifted[k - 1] < lifted[k]
            /\ processed[k].exprs = clusters[lifted[k]].exprs
            /\ processed[k].guards = clusters[lifted[k]].guards
            /\ [n \in DOMAIN processed[k].ispace.intervals |->
                   processed[k].ispace.intervals[n].dim]
                   = LoopsLeft(clusters[lifted[k]])
            /\ \A n \in DOMAIN prefix :
                   /\ prefix[n].dim \notin processed[k].dspace
                   /\ prefix[n].dim \notin DOMAIN processed[k].ispace.directions
            /\ \A d \in clusters[lifted[k]].dspace :
                   d \in processed[k].dspace
                       \/ \E n \in DOMAIN prefix : prefix[n].dim = d
            /\ processed[k].dspace \subseteq clusters[lifted[k]].dspace
        /\ \A m \in DOMAIN Stayed :
               processed[Len(lifted) + m] = clusters[Stayed[m]]
        /\ (prefix = <<>> \/ Liftable = {}) => processed = clusters

LiftOrderWitness ==
    /\ pc = "returned"
    /\ Len(clusters) = 3
    /\ lifted = <<2, 3>>
    /\ processed[3] = clusters[1]
    /\ processed[1].guards # NoGuards
    /\ processed[1].dspace = {"xl"}

----------------------------------------------------------------------------
(* Claims about Queue.process *)

\* The deepest nest of the elements
Depth ==
    IF elements = <<>> THEN 0
    ELSE CHOOSE n \in 0..3 :
            /\ \E i \in DOMAIN elements : Len(itintervals(elements[i])) = n
            /\ \A i \in DOMAIN elements : Len(itintervals(elements[i])) <= n

\* The maximal runs of adjacent elements with equal first-L iteration
\* intervals, L of them, as <<L, first position, last position>>; level 0 is
\* the whole sequence
RunsToConquer ==
    {<<0, 1, Len(elements)>>} \cup
    {r \in (1..Depth) \X (DOMAIN elements) \X (DOMAIN elements) :
        /\ r[2] <= r[3]
        /\ Len(itintervals(elements[r[2]])) >= r[1]
        /\ \A i \in r[2]..r[3] :
               SubSeq(itintervals(elements[i]), 1,
                      IF Len(itintervals(elements[i])) < r[1]
                      THEN Len(itintervals(elements[i])) ELSE r[1])
                   = SubSeq(itintervals(elements[r[2]]), 1, r[1])
        /\ \A i \in {r[2] - 1, r[3] + 1} \cap DOMAIN elements :
               SubSeq(itintervals(elements[i]), 1,
                      IF Len(itintervals(elements[i])) < r[1]
                      THEN Len(itintervals(elements[i])) ELSE r[1])
                   # SubSeq(itintervals(elements[r[2]]), 1, r[1])}

\* The run a call of the callbacks was made on
RunOfCall(call) ==
    <<Len(call.prefix),
      IF call.ids = <<>> THEN 1 ELSE call.ids[1],
      IF call.ids = <<>> THEN 0 ELSE call.ids[Len(call.ids)]>>

\* C14: the callbacks are called once for each maximal run of adjacent
\* elements with equal first-L iteration intervals (L of them), on the
\* elements of the run in order and with these intervals as prefix; the
\* calls for the runs inside a run come before the call for the run, the
\* calls for the runs to the left of a run come before it, and the last call
\* is the one on the whole sequence with an empty prefix. An element with
\* fewer than L iteration intervals is in no call of level L.
ConquerOrder ==
    /\ \A n \in DOMAIN conquered :
        LET call == conquered[n]
            run == RunOfCall(call)
        IN  /\ run \in RunsToConquer
            /\ call.ids = [k \in 1..(run[3] - run[2] + 1) |-> run[2] + k - 1]
            /\ \A k \in DOMAIN call.ids :
                   call.prefix
                       = SubSeq(itintervals(elements[call.ids[k]]), 1, run[1])
            /\ \A m \in 1..(n - 1) :
                LET before == RunOfCall(conquered[m])
                IN  \/ before[3] < run[2]
                    \/ /\ before[1] > run[1]
                       /\ run[2] <= before[2]
                       /\ before[3] <= run[3]
    /\ pc = "done" =>
        /\ {RunOfCall(conquered[n]) : n \in DOMAIN conquered} = RunsToConquer
        /\ Len(conquered) = Cardinality(RunsToConquer)
        /\ Last(conquered).prefix = <<>>
        /\ Len(Last(conquered).ids) = Len(elements)
        /\ Len(processed) = Len(elements)

ConquerOrderWitness ==
    /\ pc = "done"
    /\ Len(elements) = 3
    /\ Len(conquered) = 3
    /\ RunOfCall(conquered[1]) = <<2, 2, 3>>
    /\ RunOfCall(conquered[2]) = <<1, 2, 3>>
    /\ RunOfCall(conquered[3]) = <<0, 1, 3>>
    /\ itintervals(elements[1]) = <<>>

----------------------------------------------------------------------------
(* Claims about the order of the clusters in enforce *)

\* As many clusters, each with the equations and the data space of the
\* cluster at its position
SameClusters(a, b) ==
    /\ Len(a) = Len(b)
    /\ \A i \in DOMAIN a :
        /\ a[i].exprs = b[i].exprs
        /\ a[i].dspace = b[i].dspace

\* C15: enforce returns one cluster for each cluster it is given, in the
\* order given, each with the equations and the data space of its input; all
\* along the call the results so far, the group at work and the backlog are,
\* in this order, the input clusters, so what is peeled is the tail of the
\* input and its results come last
EnforceKeepsOrder ==
    /\ pc = "enforce" => SameClusters(processed \o clusters \o backlog, entry)
    /\ pc = "returned" => SameClusters(processed, entry)

EnforceKeepsOrderWitness ==
    /\ pc = "returned"
    /\ Len(entry) = 4
    /\ peels = 3
    /\ itintervals(processed[1])[2].stamp = 0
    /\ itintervals(processed[2])[2].stamp = 0
    /\ itintervals(processed[3])[2].stamp > 0
    /\ itintervals(processed[4])[2].stamp > 0

----------------------------------------------------------------------------
(* Claims about the guards that guard builds *)

\* The input cluster that holds the equation e
SplitFrom(e) ==
    CHOOSE i \in DOMAIN clusters :
        \E k \in DOMAIN clusters[i].exprs : clusters[i].exprs[k].id = e.id

\* The condition a conditional dimension stands for: its own if it has one,
\* else "parent modulo factor equals zero"
Stands(d) ==
    IF d.condition = <<>>
    THEN [op |-> "CondEq",
          args |-> <<[op |-> "Mod", args |-> <<d.parent, d.factor>>], 0>>]
    ELSE d.condition[1]

\* C16: the cluster of a conditional equation has one guard for each parent
\* of the equation's conditional dimensions, the conjunction of one condition
\* for each conditional dimension of that parent (its own condition, or by
\* default parent % factor = 0), and it has the iteration space and the data
\* space of the cluster the equation comes from
GuardConstruction ==
    (pc = "returned" /\ again = <<>>) =>
        \A n \in DOMAIN processed :
            LET e == processed[n].exprs[1]
            IN  IF e.conditionals = <<>>
                THEN TRUE
                ELSE /\ DOMAIN processed[n].guards
                            = {e.conditionals[k].parent :
                                  k \in DOMAIN e.conditionals}
                     /\ \A p \in DOMAIN processed[n].guards :
                         LET ds == SelectSeq(e.conditionals,
                                             LAMBDA d : d.parent = p)
                         IN  /\ processed[n].guards[p].op = "And"
                             /\ processed[n].guards[p].args
                                    = [k \in DOMAIN ds |-> Stands(ds[k])]
                     /\ processed[n].ispace = clusters[SplitFrom(e)].ispace
                     /\ processed[n].dspace = clusters[SplitFrom(e)].dspace

GuardConstructionWitness ==
    /\ pc = "returned"
    /\ again = <<>>
    /\ Len(clusters) = 2
    /\ Len(processed) = 2
    /\ DOMAIN processed[1].guards = {"t"}
    /\ Len(processed[1].guards["t"].args) = 2
    /\ processed[1].guards["t"].args[2].op = "Lt"
    /\ DOMAIN processed[2].guards = {"t", "xl"}
    /\ processed[2].dspace = {"t", "xr"}

----------------------------------------------------------------------------
(* Claims about the shape of the DAG *)

\* C17: every edge of the DAG goes from a group to a group further down the
\* input, so the input order is a topological order of the DAG, and the sort
\* never ends with a node left unscheduled (the cyclic-graph error)
AcyclicByConstruction ==
    /\ \A e \in dag : e[1] < e[2]
    /\ pc # "raised"
    /\ (pc = "sort" /\ queue = <<>>) => Len(scheduled) = Len(cgroups)

AcyclicByConstructionWitness ==
    /\ pc = "returned"
    /\ Len(cgroups) = 4
    /\ Cardinality(dag) = 3
    /\ \E e \in dag : e[2] > e[1] + 1
    /\ Len(processed) = 4

----------------------------------------------------------------------------
(* Claims about lift and the anti-dependences *)

\* The position in the result of the cluster given at position i
PlaceAfterLift(i) ==
    CHOOSE n \in DOMAIN processed : processed[n].exprs = clusters[i].exprs

\* The symbols the equations of a cluster read
SymbolsRead(c) ==
    UNION {{a.f : a \in c.exprs[k].r} : k \in DOMAIN c.exprs}

\* C19: a lifted cluster is never put ahead of a cluster that came before it
\* in the input and reads a symbol that the lifted cluster writes
LiftKeepsReadersAhead ==
    pc = "returned" =>
        \A i, j \in DOMAIN clusters :
            (/\ i < j
             /\ j \in Range(lifted)
             /\ \E k \in DOMAIN clusters[j].exprs :
                    clusters[j].exprs[k].w \in SymbolsRead(clusters[i]))
                => PlaceAfterLift(i) < PlaceAfterLift(j)

----------------------------------------------------------------------------
(* Claims about clusterize *)

\* Every equation given to clusterize is in eqs, once
Conserved(eqs) ==
    /\ Len(eqs) = Len(equations)
    /\ \A k \in DOMAIN equations :
           Cardinality({n \in DOMAIN eqs : eqs[n] = equations[k]}) = 1

\* C18: what each stage of clusterize hands on (the first clusters, the
\* result of enforce, the groups that toposort and aggregate return and the
\* clusters of these groups, the results of lift, of fuse and of guard) holds
\* every equation given, in one cluster and once
EquationConservation ==
    /\ stage = "enforce" => Conserved(ExprsOf(elements))
    /\ (stage = "enforce" /\ pc = "done") => Conserved(ExprsOf(processed))
    /\ (stage = "toposort" /\ pc = "done") =>
           Conserved(Flatten([k \in DOMAIN processed |->
                                 ExprsOf(processed[k].clusters)]))
    /\ stage = "lift" => Conserved(ExprsOf(elements))
    /\ (stage = "lift" /\ pc = "done") => Conserved(ExprsOf(processed))
    /\ (stage = "fuse" /\ pc = "returned") => Conserved(ExprsOf(processed))
    /\ (stage = "guard" /\ pc \in {"returned", "clusterized"}) =>
           Conserved(ExprsOf(processed))

\* A run through every stage: two clusters were fused, and a conditional
\* equation got a guarded cluster of its own
EquationConservationWitness ==
    /\ pc = "clusterized"
    /\ Len(equations) = 3
    /\ \E n \in DOMAIN processed : Len(processed[n].exprs) = 2
    /\ \E n \in DOMAIN processed : processed[n].guards # NoGuards

====
